---- MODULE Spec2Model ----
(***************************************************************************)
(* Google Play Reviews Scraper API (app.py): the four FastAPI endpoints,   *)
(* /, /apps, /scrape and /health, over the module-level registry LLM_APPS. *)
(*                                                                         *)
(* Text the program transforms character by character (app names, file    *)
(* names, CSV cells) is a sequence of one-character strings; text it only  *)
(* passes along (package ids, language and country codes) is a string.     *)
(* A Python dict is a sequence of <<key, value>> pairs, in insertion order.*)
(***************************************************************************)
EXTENDS Integers, Sequences, FiniteSets, TLC

VARIABLES LLM_APPS, pc, endpoint, body, request, calls, fetched, response

vars == <<LLM_APPS, pc, endpoint, body, request, calls, fetched, response>>

(***************************************************************************)
(* Bounds of the model.                                                    *)
(***************************************************************************)
\* concurrently served requests (connections)
NumReqs == 2
\* records in one adapter result
MaxRecords == 2

Clients == 1..NumReqs

(***************************************************************************)
(* Text.                                                                   *)
(***************************************************************************)
ChatGPT == <<"C","h","a","t","G","P","T">>
Claude == <<"C","l","a","u","d","e">>
Gemini == <<"G","e","m","i","n","i">>
MicrosoftCopilot == <<"M","i","c","r","o","s","o","f","t"," ","C","o","p","i","l","o","t">>
Perplexity == <<"P","e","r","p","l","e","x","i","t","y">>
MetaAI == <<"M","e","t","a"," ","A","I">>
Grok == <<"G","r","o","k">>
UnknownApp == <<"U","n","k","n","o","w","n"," ","A","p","p">>
chatgpt == <<"c","h","a","t","g","p","t">>

UpperCase == <<"A","B","C","D","E","F","G","H","I","J","K","L","M",
               "N","O","P","Q","R","S","T","U","V","W","X","Y","Z">>
LowerCase == <<"a","b","c","d","e","f","g","h","i","j","k","l","m",
               "n","o","p","q","r","s","t","u","v","w","x","y","z">>
Digits == <<"0","1","2","3","4","5","6","7","8","9">>

\* str.lower(), one character
LowerChar(ch) ==
    IF \E i \in 1..Len(UpperCase) : UpperCase[i] = ch
    THEN LowerCase[CHOOSE i \in 1..Len(UpperCase) : UpperCase[i] = ch]
    ELSE ch

\* str.lower()
Lower(s) == [i \in 1..Len(s) |-> LowerChar(s[i])]

\* str.replace(old, new) for one-character old and new
Replace(s, old, new) == [i \in 1..Len(s) |-> IF s[i] = old THEN new ELSE s[i]]

(***************************************************************************)
(* The registry, app.py:16-24.                                             *)
(***************************************************************************)
Registry ==
    << <<ChatGPT, "com.openai.chatgpt">>,
       <<Claude, "com.anthropic.claude">>,
       <<Gemini, "com.google.android.apps.bard">>,
       <<MicrosoftCopilot, "com.microsoft.copilot">>,
       <<Perplexity, "ai.perplexity.app.android">>,
       <<MetaAI, "com.meta.ai.app">>,
       <<Grok, "com.x.grok">> >>

\* dict.keys(), as a list
Keys(d) == [i \in 1..Len(d) |-> d[i][1]]

\* key in dict
HasKey(d, k) == \E i \in 1..Len(d) : d[i][1] = k

\* dict[key], for a key the dict has
Get(d, k) == d[CHOOSE i \in 1..Len(d) : d[i][1] = k][2]

\* dict[key] = value: in place when the key exists, appended otherwise
SetItem(d, k, v) ==
    IF HasKey(d, k)
    THEN [i \in 1..Len(d) |-> IF d[i][1] = k THEN <<k, v>> ELSE d[i]]
    ELSE Append(d, <<k, v>>)

(***************************************************************************)
(* ScrapeRequest, app.py:27-31, and the JSON bodies posted to /scrape.     *)
(* A body is a function from the fields it carries to their values; every  *)
(* value has the JSON type the schema declares.                            *)
(***************************************************************************)
CountDefault == 1000
CountMin == 100
CountMax == 100000
LangDefault == "en"
CountryDefault == "us"

\* a field that may be left out of the body
Opt(k, S) == {<<>>} \cup {k :> v : v \in S}

BodiesOver(names, counts, langs, countries) ==
    { a @@ c @@ l @@ y : a \in Opt("app_name", names), c \in Opt("count", counts),
                         l \in Opt("lang", langs), y \in Opt("country", countries) }

\* ValidationErrors without the upper limit on count
ValidationErrorsNoUpper(b) ==
    {k \in {"app_name"} : k \notin DOMAIN b}
    \cup {k \in {"count"} : k \in DOMAIN b /\ ~(b[k] >= CountMin)}

\* the fields of the body pydantic refuses (the locs of the 422 detail)
ValidationErrors(b) ==
    {k \in {"app_name"} : k \notin DOMAIN b}
    \cup {k \in {"count"} : k \in DOMAIN b /\ ~(b[k] >= CountMin /\ b[k] <= CountMax)}

\* the validated model, defaults filled in
ScrapeRequest(b) ==
    [app_name |-> b["app_name"],
     count |-> IF "count" \in DOMAIN b THEN b["count"] ELSE CountDefault,
     lang |-> IF "lang" \in DOMAIN b THEN b["lang"] ELSE LangDefault,
     country |-> IF "country" \in DOMAIN b THEN b["country"] ELSE CountryDefault]

(***************************************************************************)
(* The review adapter, google_play_scraper.reviews (external): what it is  *)
(* called with and what it may answer. A review is a dict; its values are  *)
(* integers (score) or text.                                               *)
(***************************************************************************)
IntVal(n) == [t |-> "int", n |-> n]
FloatVal(n) == [t |-> "float", n |-> n]
StrVal(s) == [t |-> "str", s |-> s]
NaN == [t |-> "nan"]

Tags == {1, 2}

\* the value review number tag carries under key k
FieldValue(k, tag) ==
    CASE k = "score" -> IntVal(tag)
      [] k = "reviewId" -> StrVal(<<"r", Digits[tag + 1]>>)
      [] k = "userName" -> StrVal(<<"u", Digits[tag + 1]>>)
      [] k = "app_name" -> StrVal(IF tag = 1 THEN Claude ELSE Grok)

\* the key orders the reviews arrive in
RecordShapes ==
    { <<>>, <<"score">>, <<"reviewId", "score">>, <<"score", "reviewId">>,
      <<"userName", "reviewId">>, <<"app_name", "score">>,
      <<"reviewId", "userName", "app_name", "score">> }

ReviewOf(ks, tag) == [i \in 1..Len(ks) |-> <<ks[i], FieldValue(ks[i], tag)>>]

Reviews == {ReviewOf(ks, tag) : ks \in RecordShapes, tag \in Tags}

SeqsUpTo(S, n) == UNION {[1..m -> S] : m \in 0..n}

Returned(rs) == [kind |-> "returned", records |-> rs]
Raised(text) == [kind |-> "raised", text |-> text]

\* every answer of one call: a list of reviews, or an exception
Outcomes ==
    {Returned(rs) : rs \in SeqsUpTo(Reviews, MaxRecords)}
    \cup {Raised(t) : t \in {"HTTP Error 429: Too Many Requests", "timed out"}}

\* the answers drawn when several requests run at once
ConcOutcomes ==
    { Returned(<<>>),
      Returned(<<ReviewOf(<<"score", "reviewId">>, 1)>>),
      Returned(<<ReviewOf(<<"app_name", "score">>, 2), ReviewOf(<<"reviewId">>, 1)>>),
      Raised("timed out") }

\* ReviewsCall with lang and country exchanged
ReviewsCallSwapped(package_id, req) ==
    [package_id |-> package_id, lang |-> req.country, country |-> req.lang,
     sort |-> "NEWEST", count |-> req.count]

\* the call of app.py:90-96
ReviewsCall(package_id, req) ==
    [package_id |-> package_id, lang |-> req.lang, country |-> req.country,
     sort |-> "NEWEST", count |-> req.count]

(***************************************************************************)
(* pandas: DataFrame(list of dicts), column selection, to_csv.             *)
(***************************************************************************)
\* the keys of the dicts, in order of first appearance
RECURSIVE ColumnsOf(_, _)
ColumnsOf(result, seen) ==
    IF result = <<>> THEN seen
    ELSE LET ks == Keys(Head(result))
             new == SelectSeq(ks, LAMBDA k : \A i \in 1..Len(seen) : seen[i] # k)
         IN ColumnsOf(Tail(result), seen \o new)

\* a column of integers with a missing entry is stored as float64
Upcast(result, c) ==
    /\ \E i \in 1..Len(result) : ~HasKey(result[i], c)
    /\ \A i \in 1..Len(result) : HasKey(result[i], c) => Get(result[i], c).t = "int"

Entry(result, i, c) ==
    IF ~HasKey(result[i], c) THEN NaN
    ELSE LET v == Get(result[i], c)
         IN IF Upcast(result, c) THEN FloatVal(v.n) ELSE v

DataFrame(result) ==
    LET cols == ColumnsOf(result, <<>>)
    IN [columns |-> cols,
        data |-> [i \in 1..Len(result) |->
                    [j \in 1..Len(cols) |-> Entry(result, i, cols[j])]]]

\* df[cols], for cols among df.columns
SelectColumns(df, cols) ==
    LET at(c) == CHOOSE j \in 1..Len(df.columns) : df.columns[j] = c
    IN [columns |-> cols,
        data |-> [i \in 1..Len(df.data) |->
                    [j \in 1..Len(cols) |-> df.data[i][at(cols[j])]]]]

RECURSIVE IntText(_)
IntText(n) ==
    IF n < 10 THEN <<Digits[n + 1]>>
    ELSE IntText(n \div 10) \o <<Digits[(n % 10) + 1]>>

\* the text of one entry in the CSV; a missing entry is written empty
CellText(v) ==
    CASE v.t = "int" -> IntText(v.n)
      [] v.t = "float" -> IntText(v.n) \o <<".", "0">>
      [] v.t = "str" -> v.s
      [] v.t = "nan" -> <<>>

\* df.to_csv(index=False): the header line, then one line per row
ToCsv(df) ==
    <<df.columns>> \o
    [i \in 1..Len(df.data) |-> [j \in 1..Len(df.columns) |-> CellText(df.data[i][j])]]

(***************************************************************************)
(* Responses. An HTTPException leaves the endpoint as a JSON error body    *)
(* {"detail": ...} with the exception's status code.                       *)
(***************************************************************************)
NoResponse == [status |-> 0]

HTTPException(status_code, detail) ==
    [type |-> "HTTPException", status_code |-> status_code, detail |-> detail]

Exception(text) == [type |-> "Exception", text |-> text]

\* str(e): the message of a plain exception; "<status>: <detail>" of an HTTPException
Str(e) ==
    IF e.type = "HTTPException"
    THEN <<e.status_code, ": ", e.detail>>
    ELSE <<e.text>>

ErrorResponse(e) ==
    [status |-> e.status_code, media_type |-> "application/json",
     disposition |-> <<>>, content |-> [detail |-> e.detail]]

JSONResponse(content) ==
    [status |-> 200, media_type |-> "application/json",
     disposition |-> <<>>, content |-> content]

StreamingResponse(content, media_type, disposition) ==
    [status |-> 200, media_type |-> media_type,
     disposition |-> disposition, content |-> content]

\* the 422 FastAPI answers when the body does not fit ScrapeRequest
RequestValidationError(b) ==
    [status |-> 422, media_type |-> "application/json",
     disposition |-> <<>>, content |-> [detail |-> ValidationErrors(b)]]

(***************************************************************************)
(* scrape_reviews, app.py:65-129.                                          *)
(***************************************************************************)
cols_to_keep == <<"at", "app_name", "score", "content", "thumbsUpCount", "reviewId">>

Suffix == <<"_","r","e","v","i","e","w","s",".","c","s","v">>
Attachment == <<"a","t","t","a","c","h","m","e","n","t",";"," ",
                "f","i","l","e","n","a","m","e","=">>

\* FileName without lower()
FileNameNoLower(app_name) == Replace(app_name, " ", "_") \o Suffix

\* app.py:119
FileName(app_name) == Replace(Lower(app_name), " ", "_") \o Suffix

\* TagReview keeping an app_name the review already has (setdefault)
TagReviewSetDefault(r, app_name) ==
    IF HasKey(r, "app_name") THEN r ELSE Append(r, <<"app_name", StrVal(app_name)>>)

\* app.py:102-103: r['app_name'] = request.app_name
TagReview(r, app_name) == SetItem(r, "app_name", StrVal(app_name))

TagAll(result, app_name) == [i \in 1..Len(result) |-> TagReview(result[i], app_name)]

\* FinalCols in the order of the frame's columns
FinalColsSourceOrder(columns) ==
    SelectSeq(columns, LAMBDA c : \E j \in 1..Len(cols_to_keep) : cols_to_keep[j] = c)

\* app.py:110
FinalCols(columns) ==
    SelectSeq(cols_to_keep, LAMBDA c : \E j \in 1..Len(columns) : columns[j] = c)

\* BuildCsv with the rows oldest first
BuildCsvOldestFirst(result, app_name) ==
    LET reversed == [i \in 1..Len(result) |-> result[Len(result) + 1 - i]]
        result_df == DataFrame(TagAll(reversed, app_name))
    IN ToCsv(SelectColumns(result_df, FinalCols(result_df.columns)))

\* app.py:101-116: the CSV of a non-empty result
BuildCsv(result, app_name) ==
    LET result_df == DataFrame(TagAll(result, app_name))
    IN ToCsv(SelectColumns(result_df, FinalCols(result_df.columns)))

\* AppNotFound answered 404
AppNotFound404(req, apps) ==
    HTTPException(404, <<"App '", req.app_name, "' not found. Available apps: ", Keys(apps)>>)

\* app.py:80-84
AppNotFound(req, apps) ==
    HTTPException(400, <<"App '", req.app_name, "' not found. Available apps: ", Keys(apps)>>)

NoReviews == HTTPException(404, "No reviews found for this app")

\* app.py:89-126, the body of the try: what it returns or raises
TryBody(req, out) ==
    IF out.kind = "raised"
    THEN [raise |-> Exception(out.text)]
    ELSE IF out.records = <<>>
    THEN [raise |-> NoReviews]
    ELSE [return |-> StreamingResponse(BuildCsv(out.records, req.app_name), "text/csv",
                                       Attachment \o FileName(req.app_name))]

\* app.py:128-129: every Exception raised in the try, HTTPException included
ExceptClause(e) == HTTPException(500, <<"Error during scraping: ">> \o Str(e))

\* TryExcept without the except clause: the exception leaves the endpoint
TryExceptUncaught(req, out) ==
    LET got == TryBody(req, out)
    IN IF "raise" \notin DOMAIN got THEN got.return
       ELSE IF got.raise.type = "HTTPException" THEN ErrorResponse(got.raise)
       ELSE [status |-> 500, media_type |-> "text/plain",
             disposition |-> <<>>, content |-> "Internal Server Error"]

\* app.py:88-129
TryExcept(req, out) ==
    LET got == TryBody(req, out)
    IN IF "raise" \in DOMAIN got
       THEN ErrorResponse(ExceptClause(got.raise))
       ELSE got.return

(***************************************************************************)
(* The state: the registry, and per connection the request being served.   *)
(***************************************************************************)
NoBody == [none |-> TRUE]
NoRequest == [none |-> TRUE]
NoOutcome == [kind |-> "none"]

Init ==
    /\ LLM_APPS = Registry
    /\ pc = [r \in Clients |-> "idle"]
    /\ endpoint = [r \in Clients |-> "none"]
    /\ body = [r \in Clients |-> NoBody]
    /\ request = [r \in Clients |-> NoRequest]
    /\ calls = [r \in Clients |-> <<>>]
    /\ fetched = [r \in Clients |-> NoOutcome]
    /\ response = [r \in Clients |-> NoResponse]

Finish(r, path, resp) ==
    /\ pc[r] = "idle"
    /\ pc' = [pc EXCEPT ![r] = "done"]
    /\ endpoint' = [endpoint EXCEPT ![r] = path]
    /\ response' = [response EXCEPT ![r] = resp]
    /\ UNCHANGED <<LLM_APPS, body, request, calls, fetched>>

\* GET /, app.py:42-51
Root(r) ==
    Finish(r, "/", JSONResponse([message |-> "Google Play Reviews Scraper API",
                                 available_apps |-> Keys(LLM_APPS),
                                 endpoints |-> [scrape |-> "/scrape (POST)",
                                                apps |-> "/apps (GET)"]]))

\* GetApps taking the entries out of the registry as it lists them (popitem)
GetAppsPop(r) ==
    /\ pc[r] = "idle"
    /\ pc' = [pc EXCEPT ![r] = "done"]
    /\ endpoint' = [endpoint EXCEPT ![r] = "/apps"]
    /\ response' = [response EXCEPT
                      ![r] = JSONResponse([apps |-> [i \in 1..Len(LLM_APPS) |->
                                             [name |-> LLM_APPS[Len(LLM_APPS) + 1 - i][1],
                                              package_id |-> LLM_APPS[Len(LLM_APPS) + 1 - i][2]]]])]
    /\ LLM_APPS' = <<>>
    /\ UNCHANGED <<body, request, calls, fetched>>

\* GET /apps, app.py:54-62
GetApps(r) ==
    Finish(r, "/apps",
           JSONResponse([apps |-> [i \in 1..Len(LLM_APPS) |->
                                     [name |-> LLM_APPS[i][1],
                                      package_id |-> LLM_APPS[i][2]]]]))

\* GET /health, app.py:132-134
HealthCheck(r) == Finish(r, "/health", JSONResponse([status |-> "healthy"]))

\* POST /scrape arrives with body b; FastAPI fits it to ScrapeRequest
PostScrape(r, b) ==
    /\ pc[r] = "idle"
    /\ endpoint' = [endpoint EXCEPT ![r] = "/scrape"]
    /\ body' = [body EXCEPT ![r] = b]
    /\ IF ValidationErrors(b) # {}
       THEN /\ response' = [response EXCEPT ![r] = RequestValidationError(b)]
            /\ pc' = [pc EXCEPT ![r] = "done"]
            /\ UNCHANGED request
       ELSE /\ request' = [request EXCEPT ![r] = ScrapeRequest(b)]
            /\ pc' = [pc EXCEPT ![r] = "handler"]
            /\ UNCHANGED response
    /\ UNCHANGED <<LLM_APPS, calls, fetched>>

\* scrape_reviews up to the call of reviews(), app.py:80-96
ScrapeReviews(r) ==
    /\ pc[r] = "handler"
    /\ IF ~HasKey(LLM_APPS, request[r].app_name)
       THEN /\ response' = [response EXCEPT
                              ![r] = ErrorResponse(AppNotFound(request[r], LLM_APPS))]
            /\ pc' = [pc EXCEPT ![r] = "done"]
            /\ UNCHANGED calls
       ELSE /\ calls' = [calls EXCEPT
                           ![r] = Append(@, ReviewsCall(Get(LLM_APPS, request[r].app_name),
                                                        request[r]))]
            /\ pc' = [pc EXCEPT ![r] = "fetching"]
            /\ UNCHANGED response
    /\ UNCHANGED <<LLM_APPS, endpoint, body, request, fetched>>

\* reviews() answers out; scrape_reviews runs to its end, app.py:90-129
ReviewsAnswer(r, out) ==
    /\ pc[r] = "fetching"
    /\ fetched' = [fetched EXCEPT ![r] = out]
    /\ response' = [response EXCEPT ![r] = TryExcept(request[r], out)]
    /\ pc' = [pc EXCEPT ![r] = "done"]
    /\ UNCHANGED <<LLM_APPS, endpoint, body, request, calls>>

(***************************************************************************)
(* One request on its own, over every body and every adapter answer.       *)
(***************************************************************************)
Names == {ChatGPT, Claude, Gemini, MicrosoftCopilot, Perplexity, MetaAI, Grok,
          UnknownApp, chatgpt}

Bodies == BodiesOver(Names, {50, 100, 100000, 100001}, {"fr"}, {"gb"})

Next ==
    \E r \in {1} :
        \/ Root(r)
        \/ GetApps(r)
        \/ HealthCheck(r)
        \/ \E b \in Bodies : PostScrape(r, b)
        \/ ScrapeReviews(r)
        \/ \E out \in Outcomes : ReviewsAnswer(r, out)

Spec == Init /\ [][Next]_vars

(***************************************************************************)
(* Several requests at once, their steps interleaved.                      *)
(***************************************************************************)
ConcBodies == BodiesOver({ChatGPT, MetaAI, UnknownApp}, {50}, {}, {})

NextConc ==
    \E r \in Clients :
        \/ Root(r)
        \/ GetApps(r)
        \/ HealthCheck(r)
        \/ \E b \in ConcBodies : PostScrape(r, b)
        \/ ScrapeReviews(r)
        \/ \E out \in ConcOutcomes : ReviewsAnswer(r, out)

SpecConc == Init /\ [][NextConc]_vars

(***************************************************************************)
(* Properties.                                                             *)
(***************************************************************************)
RegistryNames == {ChatGPT, Claude, Gemini, MicrosoftCopilot, Perplexity, MetaAI, Grok}

Scrape(r) == endpoint[r] = "/scrape"
Done(r) == pc[r] = "done"
Succeeded(r) == Scrape(r) /\ Done(r) /\ response[r].status = 200
Names_(r) == "app_name" \in DOMAIN body[r]
CountGiven(r) == "count" \in DOMAIN body[r]
CountInRange(r) == CountGiven(r) => (body[r]["count"] >= 100 /\ body[r]["count"] <= 100000)
ReturnedEmpty(r) == fetched[r].kind = "returned" /\ fetched[r].records = <<>>
ReturnedSome(r) == fetched[r].kind = "returned" /\ fetched[r].records # <<>>

\* C1: a registered app_name, a count in range and an empty adapter result give
\* status 404, and no CSV.
C1_EmptyResultIs404 ==
    \A r \in Clients :
        (Scrape(r) /\ Done(r) /\ ReturnedEmpty(r))
            => (response[r].status = 404 /\ response[r].media_type # "text/csv")

C1_Reached ==
    \E r \in Clients :
        /\ Scrape(r) /\ Done(r) /\ ReturnedEmpty(r)
        /\ body[r]["app_name"] \in RegistryNames /\ CountInRange(r)

\* C2 as stated: every /scrape request whose app_name is not in the registry
\* is answered 400.
C2_UnknownAppIs400 ==
    \A r \in Clients :
        (Scrape(r) /\ Done(r) /\ Names_(r) /\ body[r]["app_name"] \notin RegistryNames)
            => response[r].status = 400

\* C2 amended: a /scrape request that passes the schema (count omitted or in
\* [100, 100000]) and whose app_name is not in the registry is answered 400, the
\* detail naming the app_name and listing the 7 registry names; the adapter is
\* never called for a request with an unregistered app_name.
C2_UnknownAppValidCountIs400 ==
    \A r \in Clients :
        (Scrape(r) /\ Names_(r) /\ body[r]["app_name"] \notin RegistryNames)
            => /\ calls[r] = <<>>
               /\ fetched[r] = NoOutcome
               /\ (Done(r) /\ CountInRange(r)) =>
                    /\ response[r].status = 400
                    /\ response[r].content.detail =
                         <<"App '", body[r]["app_name"], "' not found. Available apps: ",
                           <<ChatGPT, Claude, Gemini, MicrosoftCopilot, Perplexity,
                             MetaAI, Grok>> >>

C2_Witness ==
    \E r \in Clients :
        /\ Scrape(r) /\ Done(r) /\ Names_(r) /\ CountInRange(r)
        /\ body[r]["app_name"] = UnknownApp
        /\ response[r].status = 400

\* C3: a count outside [100, 100000] is refused by the schema (422, naming count)
\* and the adapter is never called; an omitted count is no validation failure, and
\* the validated request then carries count 1000.
C3_CountChecked ==
    \A r \in Clients :
        Scrape(r) =>
            /\ ~CountInRange(r) =>
                 /\ Done(r)
                 /\ response[r].status = 422
                 /\ "count" \in response[r].content.detail
                 /\ request[r] = NoRequest
                 /\ calls[r] = <<>>
                 /\ fetched[r] = NoOutcome
            /\ ~CountGiven(r) =>
                 /\ response[r].status = 422 => "count" \notin response[r].content.detail
                 /\ Names_(r) => (response[r].status # 422 /\ request[r].count = 1000)

C3_Witness ==
    \E r \in Clients :
        /\ Scrape(r) /\ Done(r) /\ CountGiven(r) /\ body[r]["count"] = 50
        /\ response[r].status = 422

C3_WitnessDefault ==
    \E r \in Clients :
        /\ Scrape(r) /\ ~CountGiven(r) /\ pc[r] = "fetching"
        /\ calls[r][1].count = 1000

\* C4: a request that passed the schema and the registry check calls the adapter
\* exactly once, with (package id of app_name, lang, country, NEWEST, count); when
\* the call raises, the answer is 500 with the error's text; never a second call.
C4_OneCall ==
    \A r \in Clients :
        /\ Len(calls[r]) <= 1
        /\ (Scrape(r) /\ pc[r] \in {"fetching", "done"} /\ Names_(r) /\ CountInRange(r)
              /\ body[r]["app_name"] \in RegistryNames) =>
             /\ Len(calls[r]) = 1
             /\ calls[r][1] =
                  [package_id |-> Get(Registry, body[r]["app_name"]),
                   lang |-> IF "lang" \in DOMAIN body[r] THEN body[r]["lang"] ELSE "en",
                   country |-> IF "country" \in DOMAIN body[r]
                               THEN body[r]["country"] ELSE "us",
                   sort |-> "NEWEST",
                   count |-> IF CountGiven(r) THEN body[r]["count"] ELSE 1000]
        /\ (Done(r) /\ fetched[r].kind = "raised") =>
             /\ response[r].status = 500
             /\ response[r].content.detail = <<"Error during scraping: ", fetched[r].text>>

C4_Witness ==
    \E r \in Clients :
        /\ Scrape(r) /\ Done(r) /\ fetched[r].kind = "raised"
        /\ Len(calls[r]) = 1 /\ calls[r][1].lang = "fr"
        /\ response[r].status = 500

\* C5: a /scrape request ends in one outcome: a CSV attachment with a line for
\* every record the adapter returned, or a JSON error with status 400, 404, 422
\* or 500; nothing is answered before the end, and a raising adapter is answered
\* with such an error.
C5_AllOrNothing ==
    \A r \in Clients :
        Scrape(r) =>
            /\ ~Done(r) => response[r] = NoResponse
            /\ Done(r) =>
                 \/ /\ response[r].status = 200
                    /\ response[r].media_type = "text/csv"
                    /\ ReturnedSome(r)
                    /\ Len(response[r].content) = Len(fetched[r].records) + 1
                 \/ /\ response[r].status \in {400, 404, 422, 500}
                    /\ response[r].media_type = "application/json"
                    /\ DOMAIN response[r].content = {"detail"}
            /\ (Done(r) /\ fetched[r].kind = "raised") => response[r].status = 500

C5_Witness ==
    \E r \in Clients :
        /\ Succeeded(r)
        /\ Len(fetched[r].records) = 2
        /\ Len(response[r].content) = 3

\* the texts a CSV may carry for value v
TextsOf(v) ==
    IF v.t = "int" THEN {IntText(v.n), IntText(v.n) \o <<".", "0">>} ELSE {v.s}

\* C6: the CSV is one header line and then one line per adapter record, the i-th
\* line carrying the i-th record's values under the header's columns.
C6_RowPerRecord ==
    \A r \in Clients :
        Succeeded(r) =>
            LET recs == fetched[r].records
                csv == response[r].content
                header == csv[1]
            IN /\ Len(csv) = Len(recs) + 1
               /\ Len(header) >= 1
               /\ \A i \in 1..Len(recs) :
                    /\ Len(csv[i + 1]) = Len(header)
                    /\ \A j \in 1..Len(header) :
                         IF header[j] = "app_name"
                         THEN csv[i + 1][j] = body[r]["app_name"]
                         ELSE IF HasKey(recs[i], header[j])
                         THEN csv[i + 1][j] \in TextsOf(Get(recs[i], header[j]))
                         ELSE csv[i + 1][j] = <<>>

C6_Witness ==
    \E r \in Clients :
        /\ Succeeded(r)
        /\ Len(fetched[r].records) = 2
        /\ fetched[r].records[1] # fetched[r].records[2]
        /\ response[r].content[2] # response[r].content[3]

\* C7: every data line of the CSV carries the request's app_name in the app_name
\* column, whatever app_name the adapter's records carried.
C7_AppNameColumn ==
    \A r \in Clients :
        Succeeded(r) =>
            LET csv == response[r].content
            IN /\ \E j \in 1..Len(csv[1]) : csv[1][j] = "app_name"
               /\ \A i \in 2..Len(csv) : \A j \in 1..Len(csv[1]) :
                    csv[1][j] = "app_name" => csv[i][j] = body[r]["app_name"]

C7_Witness ==
    \E r \in Clients :
        /\ Succeeded(r)
        /\ \E i \in 1..Len(fetched[r].records) :
             /\ HasKey(fetched[r].records[i], "app_name")
             /\ Get(fetched[r].records[i], "app_name").s # body[r]["app_name"]

CanonicalOrder == <<"at", "app_name", "score", "content", "thumbsUpCount", "reviewId">>

\* C8: the header is the canonical list restricted to the fields some record
\* carries once tagged with app_name, in canonical order; every line has the
\* header's width.
C8_CanonicalHeader ==
    \A r \in Clients :
        Succeeded(r) =>
            LET recs == fetched[r].records
                csv == response[r].content
                present(c) == c = "app_name" \/ \E i \in 1..Len(recs) : HasKey(recs[i], c)
            IN /\ csv[1] = SelectSeq(CanonicalOrder, present)
               /\ \A i \in 1..Len(csv) : Len(csv[i]) = Len(csv[1])

C8_Witness ==
    \E r \in Clients :
        /\ Succeeded(r)
        /\ Keys(fetched[r].records[1]) = <<"reviewId", "userName", "app_name", "score">>
        /\ response[r].content[1] = <<"app_name", "score", "reviewId">>

C9_WitnessPair ==
    \E r1, r2 \in Clients :
        /\ r1 # r2
        /\ Succeeded(r1) /\ Succeeded(r2)
        /\ body[r1] = body[r2] /\ fetched[r1] = fetched[r2]

ExpectedFile(name) ==
    CASE name = ChatGPT -> <<"c","h","a","t","g","p","t","_","r","e","v","i","e","w","s",".","c","s","v">>
      [] name = Claude -> <<"c","l","a","u","d","e","_","r","e","v","i","e","w","s",".","c","s","v">>
      [] name = Gemini -> <<"g","e","m","i","n","i","_","r","e","v","i","e","w","s",".","c","s","v">>
      [] name = MicrosoftCopilot ->
           <<"m","i","c","r","o","s","o","f","t","_","c","o","p","i","l","o","t",
             "_","r","e","v","i","e","w","s",".","c","s","v">>
      [] name = Perplexity ->
           <<"p","e","r","p","l","e","x","i","t","y","_","r","e","v","i","e","w","s",".","c","s","v">>
      [] name = MetaAI -> <<"m","e","t","a","_","a","i","_","r","e","v","i","e","w","s",".","c","s","v">>
      [] name = Grok -> <<"g","r","o","k","_","r","e","v","i","e","w","s",".","c","s","v">>

\* C10: the Content-Disposition of a CSV response is "attachment; filename=" and
\* the app_name in lower case with "_" for " ", then "_reviews.csv"; no other
\* registry name gives the same file name.
C10_FileName ==
    \A r \in Clients :
        Succeeded(r) =>
            LET name == body[r]["app_name"]
                head == <<"a","t","t","a","c","h","m","e","n","t",";"," ",
                          "f","i","l","e","n","a","m","e","=">>
            IN /\ response[r].disposition = head \o ExpectedFile(name)
               /\ \A other \in RegistryNames \ {name} :
                    response[r].disposition # head \o ExpectedFile(other)

C10_Witness ==
    \E r \in Clients :
        /\ Succeeded(r)
        /\ body[r]["app_name"] = MicrosoftCopilot
        /\ SubSeq(response[r].disposition, 22, Len(response[r].disposition)) =
             <<"m","i","c","r","o","s","o","f","t","_","c","o","p","i","l","o","t",
               "_","r","e","v","i","e","w","s",".","c","s","v">>

====
